---- MODULE Spec2Model ----
(***************************************************************************)
(* Model of OptimizedFOONSearch (foon_parse_assign2.py): the FOON parser,  *)
(* the kitchen and motion loaders, the availability check, the goal        *)
(* matcher and the two searches (iterative deepening and "A*").            *)
(*                                                                         *)
(* Python strings are sequences of one-character strings, so that          *)
(* normalisation, split(), startswith() and the substring test are         *)
(* computed character by character.  Python lists are cells of `heap`      *)
(* and are referred to by their index, so that the aliasing between        *)
(* current_unit, units and the buckets of unit_to_objects is kept.         *)
(***************************************************************************)
EXTENDS Integers, Sequences, FiniteSets, TLC

\* ------------------------------------------------------------------ bounds

\* Longest FOON file (number of lines returned by readlines()).
MaxLines == 4

\* Largest explicit max_depth passed to iterative_deepening_search.
MaxDepth == 2

\* The default of the max_depth parameter.
DefaultMaxDepth == 40

\* ------------------------------------------------------- characters, str

Whitespace == {" ", "\t", "\n"}

Lowercase == {"o", "s", "m", "a", "b", "c", "x", "y", "z"}

Uppercase == {"O", "S", "A", "B"}

Digits == {"0", "1", "5"}

\* \w of the re module: letters, digits (and the underscore, not used here).
WordChars == Lowercase \cup Uppercase \cup Digits

\* str.lower() on one character.
LowerChar(c) ==
    CASE c = "O" -> "o"
      [] c = "S" -> "s"
      [] c = "A" -> "a"
      [] c = "B" -> "b"
      [] OTHER -> c

\* str.lower()
Lower(s) == [k \in 1..Len(s) |-> LowerChar(s[k])]

\* re.sub(r'[^\w\s]', '', line): drops every character that is neither a
\* word character nor whitespace.
RemovePunct(s) == SelectSeq(s, LAMBDA c : c \in WordChars \/ c \in Whitespace)

RECURSIVE LStrip(_)
LStrip(s) ==
    IF s # <<>> /\ Head(s) \in Whitespace THEN LStrip(Tail(s)) ELSE s

RECURSIVE RStrip(_)
RStrip(s) ==
    IF s # <<>> /\ s[Len(s)] \in Whitespace
    THEN RStrip(SubSeq(s, 1, Len(s) - 1))
    ELSE s

\* str.strip()
Strip(s) == RStrip(LStrip(s))

\* re.sub(r'\s+', ' ', line): every maximal run of whitespace becomes one
\* space.
RECURSIVE CollapseSpaces(_)
CollapseSpaces(s) ==
    IF s = <<>> THEN <<>>
    ELSE IF Head(s) \in Whitespace
         THEN <<" ">> \o CollapseSpaces(LStrip(s))
         ELSE <<Head(s)>> \o CollapseSpaces(Tail(s))

\* The two re.sub calls, strip() and lower() of load_foon, in code order.
Normalise(raw) == CollapseSpaces(Lower(Strip(RemovePunct(raw))))

\* Length of the leading run of non-whitespace characters of s.
RECURSIVE WordLen(_)
WordLen(s) ==
    IF s = <<>> \/ Head(s) \in Whitespace THEN 0 ELSE 1 + WordLen(Tail(s))

\* str.split() without arguments: the maximal runs of non-whitespace.
RECURSIVE Split(_)
Split(s) ==
    LET t == LStrip(s)
        n == WordLen(t)
    IN  IF t = <<>> THEN <<>>
        ELSE <<SubSeq(t, 1, n)>> \o Split(SubSeq(t, n + 1, Len(t)))

\* ' '.join(parts)
RECURSIVE Join(_)
Join(parts) ==
    IF parts = <<>> THEN <<>>
    ELSE IF Len(parts) = 1 THEN parts[1]
         ELSE parts[1] \o <<" ">> \o Join(Tail(parts))

\* line.startswith(c) for a one-character prefix c.
StartsWith(line, c) == line # <<>> /\ line[1] = c

\* The `in` operator on two strings: sub occurs in s as a substring.
Contains(sub, s) ==
    \E k \in 0..(Len(s) - Len(sub)) : SubSeq(s, k + 1, k + Len(sub)) = sub

\* ------------------------------------------------------------- inputs

\* Lines a FOON file is made of, as readlines() returns them.
LineObjA == <<"O", " ", "A", ".", "\n">>

LineObjB == <<"o", "\t", "b", "\n">>

LineState == <<"S", " ", "x", "\t", " ", "y", "\n">>

LineBlank == <<"\n">>

LineBackslash == <<"\\", "\n">>

LineBareTag == <<"o", "\n">>

RawLines ==
    {LineObjA, LineObjB, LineState, LineBlank, LineBackslash, LineBareTag}

\* Every file of at most MaxLines lines.
FoonFiles == UNION {[1..n -> RawLines] : n \in 0..MaxLines}

KitchenFiles ==
    { <<>>,
      << <<"A", "\n">>, <<" ", "a", "\n">> >> }

MotionFiles ==
    { << <<"b", "\n">>, <<"a", " ", "x", "\n">> >>,
      << <<"a", " ", "0", ".", "5", "\n">>, <<"a", " ", "0", "\n">> >> }

GoalObjects == { <<"a">>, <<"c">> }

GoalStates == { <<"x">>, <<"x", " ", "y">>, <<"z">> }

MaxDepths == (0..MaxDepth) \cup {DefaultMaxDepth}

\* ------------------------------------------------------------ Python values

\* None, as a unit reference: heap cells are numbered from 1.
None == 0

\* The two kinds of value available_in_kitchen returns: the bool True, or a
\* list of names.
PyTrue == [type |-> "bool", list |-> <<>>]

PyList(l) == [type |-> "list", list |-> l]

\* Truth value of such a value in a condition: True is true, a list is true
\* when it is not empty.
Truthy(v) == v.type = "bool" \/ v.list # <<>>

\* IsTrue with the identity test replaced by the truth value of v.
IsTrueByTruthValue(v) == v.type = "bool" \/ v.list # <<>>

\* `v is True`
IsTrue(v) == v.type = "bool"

\* An empty dict; dicts are functions on their set of keys.
EmptyDict == [k \in {} |-> <<>>]

\* d[k] = v on a dict.
DictSet(d, k, v) ==
    [x \in DOMAIN d \cup {k} |-> IF x = k THEN v ELSE d[x]]

\* A call that has not been made.
NoCall ==
    [ op |-> "none", unit |-> None, goal_object |-> <<>>, goal_state |-> <<>>,
      max_depth |-> 0, ret |-> None, calls |-> 0, value |-> PyTrue,
      flag |-> FALSE, err |-> "none" ]

\* ------------------------------------------------------------------ state

VARIABLES
    pc,                \* where the program is
    lines,             \* load_foon: file.readlines()
    i,                 \* load_foon: position of the for loop in lines
    heap,              \* the list objects holding units, by reference
    current_unit,      \* load_foon: reference to the unit being filled
    units,             \* load_foon: references to the finished units
    graph,             \* self.graph
    unit_to_objects,   \* self.unit_to_objects
    kitchen,           \* self.kitchen
    motion_data,       \* self.motion_data
    error,             \* exception raised by the constructor, or "none"
    call               \* the method call made on the object, and its outcome

vars ==
    << pc, lines, i, heap, current_unit, units, graph, unit_to_objects,
       kitchen, motion_data, error, call >>

\* OptimizedFOONSearch(foon_file, ...) entering load_foon, after readlines()
\* and the three initialisations before the loop.
Init ==
    /\ pc = "load_foon"
    /\ lines \in FoonFiles
    /\ i = 1
    /\ heap = << <<>> >>
    /\ current_unit = 1
    /\ units = <<>>
    /\ graph = <<>>
    /\ unit_to_objects = EmptyDict
    /\ kitchen = {}
    /\ motion_data = EmptyDict
    /\ error = "none"
    /\ call = NoCall

\* ---------------------------------------------------------------- load_foon

\* The test of line 26.
IsDelimiter(line) == line = <<"\\">> \/ line = <<>>

\* One iteration of the for loop of load_foon on lines[i].
LoadFoonLine ==
    /\ pc = "load_foon"
    /\ i <= Len(lines)
    /\ LET line == Normalise(lines[i])
           parts == Split(line)
       IN  IF IsDelimiter(line)
           THEN /\ units' = IF heap[current_unit] # <<>>
                            THEN Append(units, current_unit)
                            ELSE units
                \* current_unit = []: a new list; an empty list that is
                \* replaced is referenced by nothing and its cell is reused.
                /\ heap' = IF heap[current_unit] # <<>>
                           THEN Append(heap, <<>>)
                           ELSE heap
                /\ current_unit' = IF heap[current_unit] # <<>>
                                   THEN Len(heap) + 1
                                   ELSE current_unit
                /\ i' = i + 1
                /\ UNCHANGED << pc, unit_to_objects, error >>
           ELSE /\ heap' = [heap EXCEPT ![current_unit] = Append(@, line)]
                /\ IF StartsWith(line, "o")
                   THEN IF Len(parts) < 2
                        THEN \* line.split()[1] raises IndexError
                             /\ pc' = "raised"
                             /\ error' = "IndexError"
                             /\ UNCHANGED << i, unit_to_objects >>
                        ELSE /\ unit_to_objects' =
                                  DictSet(unit_to_objects, parts[2],
                                      Append(IF parts[2] \in DOMAIN unit_to_objects
                                             THEN unit_to_objects[parts[2]]
                                             ELSE <<>>,
                                             current_unit))
                             /\ i' = i + 1
                             /\ UNCHANGED << pc, error >>
                   ELSE /\ i' = i + 1
                        /\ UNCHANGED << pc, unit_to_objects, error >>
                /\ UNCHANGED << units, current_unit >>
    /\ UNCHANGED << lines, graph, kitchen, motion_data, call >>

\* The loop is over: return units, unit_to_objects; __init__ stores them.
LoadFoonReturn ==
    /\ pc = "load_foon"
    /\ i > Len(lines)
    /\ graph' = units
    /\ pc' = "load_kitchen"
    /\ UNCHANGED << lines, i, heap, current_unit, units, unit_to_objects,
                    kitchen, motion_data, error, call >>

\* ------------------------------------------------- load_kitchen, load_motion

\* load_kitchen on the lines of a kitchen file.
load_kitchen(file) == {Lower(Strip(file[k])) : k \in 1..Len(file)}

\* float(s) of the numerals used in MotionFiles, in hundredths; -1 stands
\* for ValueError.
ParseFloat(s) ==
    CASE s = <<"0">> -> 0
      [] s = <<"1">> -> 100
      [] s = <<"0", ".", "5">> -> 50
      [] OTHER -> -1

\* load_motion on the lines of a motion file, from the dict built so far.
RECURSIVE LoadMotionFrom(_, _)
LoadMotionFrom(file, motion_dict) ==
    IF file = <<>> THEN motion_dict
    ELSE LET parts == Split(Strip(Head(file)))
         IN  IF Len(parts) >= 2 /\ ParseFloat(parts[2]) # -1
             THEN LoadMotionFrom(Tail(file),
                      DictSet(motion_dict, parts[1], ParseFloat(parts[2])))
             ELSE LoadMotionFrom(Tail(file), motion_dict)

load_motion(file) == LoadMotionFrom(file, EmptyDict)

\* self.kitchen = self.load_kitchen(kitchen_file); the locals of the
\* finished load_foon call are gone.
LoadKitchen ==
    /\ pc = "load_kitchen"
    /\ \E file \in KitchenFiles : kitchen' = load_kitchen(file)
    /\ pc' = "load_motion"
    /\ lines' = <<>>
    /\ i' = 1
    /\ current_unit' = None
    /\ units' = <<>>
    /\ UNCHANGED << heap, graph, unit_to_objects, motion_data, error, call >>

\* self.motion_data = self.load_motion(motion_file)
LoadMotion ==
    /\ pc = "load_motion"
    /\ \E file \in MotionFiles : motion_data' = load_motion(file)
    /\ pc' = "ready"
    /\ UNCHANGED << lines, i, heap, current_unit, units, graph,
                    unit_to_objects, kitchen, error, call >>

\* ------------------------------------------- available_in_kitchen, goal match

\* The for loop of available_in_kitchen from line k of unit on, with the
\* missing_objects collected so far.
RECURSIVE AvailableLoop(_, _, _)
AvailableLoop(unit, k, missing_objects) ==
    IF k > Len(unit) THEN missing_objects
    ELSE IF StartsWith(unit[k], "o")
         THEN LET object_name == Split(unit[k])[2]
              IN  IF object_name \notin kitchen
                  THEN AvailableLoop(unit, k + 1,
                           Append(missing_objects, object_name))
                  ELSE AvailableLoop(unit, k + 1, missing_objects)
         ELSE AvailableLoop(unit, k + 1, missing_objects)

\* available_in_kitchen leaving its loop at the first missing object.
available_in_kitchen_first_missing(unit) ==
    LET missing_objects == AvailableLoop(unit, 1, <<>>)
    IN  IF missing_objects = <<>> THEN PyTrue
        ELSE PyList(<<missing_objects[1]>>)

\* available_in_kitchen(unit), unit being the list of lines.
available_in_kitchen(unit) ==
    LET missing_objects == AvailableLoop(unit, 1, <<>>)
    IN  IF missing_objects = <<>> THEN PyTrue ELSE PyList(missing_objects)

\* The for loop of unit_matches_goal from line k of unit on; m holds
\* object_match and state_match.
RECURSIVE MatchLoop(_, _, _, _, _)
MatchLoop(unit, goal_object, goal_state, k, m) ==
    IF k > Len(unit) THEN m
    ELSE LET line == unit[k]
             parts == Split(line)
         IN  IF StartsWith(line, "o")
             THEN MatchLoop(unit, goal_object, goal_state, k + 1,
                      IF goal_object = parts[2]
                      THEN [m EXCEPT !.object_match = TRUE]
                      ELSE m)
             ELSE IF StartsWith(line, "s")
                  THEN LET state_value == Join(Tail(parts))
                       IN  MatchLoop(unit, goal_object, goal_state, k + 1,
                               IF Contains(goal_state, state_value)
                                  \/ goal_state = state_value
                               THEN [m EXCEPT !.state_match = TRUE]
                               ELSE m)
                  ELSE MatchLoop(unit, goal_object, goal_state, k + 1, m)

\* unit_matches_goal comparing the state text for equality only.
unit_matches_goal_exact_state(unit, goal_object, goal_state) ==
    /\ \E k \in 1..Len(unit) :
          StartsWith(unit[k], "o") /\ Split(unit[k])[2] = goal_object
    /\ \E k \in 1..Len(unit) :
          StartsWith(unit[k], "s") /\ Join(Tail(Split(unit[k]))) = goal_state

\* unit_matches_goal(unit, goal_object, goal_state)
unit_matches_goal(unit, goal_object, goal_state) ==
    LET m == MatchLoop(unit, goal_object, goal_state, 1,
                 [object_match |-> FALSE, state_match |-> FALSE])
    IN  m.object_match /\ m.state_match

\* ------------------------------------------------------------------- IDS

\* The for loop of depth_limited_search over the rest of a bucket.
RECURSIVE DepthLimitedScan(_, _, _)
DepthLimitedScan(bucket, goal_object, goal_state) ==
    IF bucket = <<>> THEN None
    ELSE LET unit == Head(bucket)
         IN  IF unit_matches_goal(heap[unit], goal_object, goal_state)
             THEN LET kitchen_status == available_in_kitchen(heap[unit])
                  IN  IF IsTrue(kitchen_status)
                      THEN unit
                      ELSE DepthLimitedScan(Tail(bucket), goal_object,
                               goal_state)
             ELSE DepthLimitedScan(Tail(bucket), goal_object, goal_state)

\* depth_limited_search(goal_object, goal_state, depth)
depth_limited_search(goal_object, goal_state, depth) ==
    IF depth = 0 THEN None
    ELSE IF goal_object \notin DOMAIN unit_to_objects THEN None
         ELSE DepthLimitedScan(unit_to_objects[goal_object], goal_object,
                  goal_state)

\* `if result:` on what depth_limited_search returns: None is false, a list
\* is true when it is not empty.
ResultTruthy(result) == result # None /\ heap[result] # <<>>

\* The for loop of iterative_deepening_search from `depth` on; calls counts
\* the depth_limited_search calls made.
RECURSIVE IdsLoop(_, _, _, _)
IdsLoop(goal_object, goal_state, max_depth, depth) ==
    IF depth >= max_depth THEN [ret |-> None, calls |-> depth]
    ELSE LET result == depth_limited_search(goal_object, goal_state, depth)
         IN  IF ResultTruthy(result)
             THEN [ret |-> result, calls |-> depth + 1]
             ELSE IdsLoop(goal_object, goal_state, max_depth, depth + 1)

\* iterative_deepening_search(goal_object, goal_state, max_depth)
iterative_deepening_search(goal_object, goal_state, max_depth) ==
    IdsLoop(goal_object, goal_state, max_depth, 0)

\* -------------------------------------------------------------------- A*

\* heapq.heappop: the least node of open_list.  Nodes are pushed only
\* before the loop, so the tuple order never has to go beyond the cost.
HeapTop(open_list) ==
    CHOOSE n \in 1..Len(open_list) :
        \A j \in 1..Len(open_list) : open_list[n].cost <= open_list[j].cost

HeapRest(open_list) ==
    LET n == HeapTop(open_list)
    IN  SubSeq(open_list, 1, n - 1) \o SubSeq(open_list, n + 1, Len(open_list))

\* The for loop of a_star_search over the rest of a bucket.  done tells
\* whether the loop left the function (by return or by an exception).
\* Costs and success rates are in hundredths.
RECURSIVE AStarScan(_, _, _)
AStarScan(bucket, node, motion) ==
    IF bucket = <<>> THEN [done |-> FALSE, ret |-> None, err |-> "none"]
    ELSE LET unit == Head(bucket)
         IN  IF unit_matches_goal(heap[unit], node.object, node.state)
                /\ Truthy(available_in_kitchen(heap[unit]))
             THEN LET parts == Split(heap[unit][1])
                  IN  IF Len(parts) < 2
                      THEN [done |-> TRUE, ret |-> None, err |-> "IndexError"]
                      ELSE LET success_rate ==
                                   IF parts[2] \in DOMAIN motion
                                   THEN motion[parts[2]]
                                   ELSE 100
                           IN  IF success_rate = 0
                               THEN [done |-> TRUE, ret |-> None,
                                     err |-> "ZeroDivisionError"]
                               ELSE [done |-> TRUE, ret |-> unit,
                                     err |-> "none"]
             ELSE AStarScan(Tail(bucket), node, motion)

\* The while loop of a_star_search without the test of line 136: the
\* subscript of line 139 raises KeyError on an object that is no key.
RECURSIVE AStarLoopNoKeyTest(_, _, _)
AStarLoopNoKeyTest(open_list, closed_list, motion) ==
    IF open_list = <<>> THEN [ret |-> None, err |-> "none"]
    ELSE LET node == open_list[HeapTop(open_list)]
             rest == HeapRest(open_list)
             key == <<node.object, node.state>>
         IN  IF key \in closed_list
             THEN AStarLoopNoKeyTest(rest, closed_list, motion)
             ELSE IF node.object \notin DOMAIN unit_to_objects
                  THEN [ret |-> None, err |-> "KeyError"]
                  ELSE LET r == AStarScan(unit_to_objects[node.object],
                                          node, motion)
                       IN  IF r.done
                           THEN [ret |-> r.ret, err |-> r.err]
                           ELSE AStarLoopNoKeyTest(rest,
                                    closed_list \cup {key}, motion)

\* The while loop of a_star_search.
RECURSIVE AStarLoop(_, _, _)
AStarLoop(open_list, closed_list, motion) ==
    IF open_list = <<>> THEN [ret |-> None, err |-> "none"]
    ELSE LET node == open_list[HeapTop(open_list)]
             rest == HeapRest(open_list)
             key == <<node.object, node.state>>
         IN  IF key \in closed_list
             THEN AStarLoop(rest, closed_list, motion)
             ELSE IF node.object \notin DOMAIN unit_to_objects
                  THEN AStarLoop(rest, closed_list \cup {key}, motion)
                  ELSE LET r == AStarScan(unit_to_objects[node.object],
                                          node, motion)
                       IN  IF r.done
                           THEN [ret |-> r.ret, err |-> r.err]
                           ELSE AStarLoop(rest, closed_list \cup {key}, motion)

\* a_star_search(goal_object, goal_state) on a given motion table.
AStarWith(motion, goal_object, goal_state) ==
    AStarLoop(<< [cost |-> 0, object |-> goal_object, state |-> goal_state] >>,
              {}, motion)

\* a_star_search(goal_object, goal_state)
a_star_search(goal_object, goal_state) ==
    AStarWith(motion_data, goal_object, goal_state)

\* ------------------------------------------------------------ method calls

\* The units a caller can hold: those of self.graph (test_script.py walks
\* it) and those of the buckets.
UnitRefs ==
    {graph[k] : k \in 1..Len(graph)}
    \cup UNION {{unit_to_objects[x][k] : k \in 1..Len(unit_to_objects[x])} :
                    x \in DOMAIN unit_to_objects}

IterativeDeepeningSearch ==
    /\ pc = "ready"
    /\ \E goal_object \in GoalObjects, goal_state \in GoalStates,
          max_depth \in MaxDepths :
          LET r == iterative_deepening_search(goal_object, goal_state,
                       max_depth)
          IN  call' = [NoCall EXCEPT !.op = "iterative_deepening_search",
                                     !.goal_object = goal_object,
                                     !.goal_state = goal_state,
                                     !.max_depth = max_depth,
                                     !.ret = r.ret,
                                     !.calls = r.calls]
    /\ pc' = "called"
    /\ UNCHANGED << lines, i, heap, current_unit, units, graph,
                    unit_to_objects, kitchen, motion_data, error >>

AStarSearch ==
    /\ pc = "ready"
    /\ \E goal_object \in GoalObjects, goal_state \in GoalStates :
          LET r == a_star_search(goal_object, goal_state)
          IN  call' = [NoCall EXCEPT !.op = "a_star_search",
                                     !.goal_object = goal_object,
                                     !.goal_state = goal_state,
                                     !.ret = r.ret,
                                     !.err = r.err]
    /\ pc' = "called"
    /\ UNCHANGED << lines, i, heap, current_unit, units, graph,
                    unit_to_objects, kitchen, motion_data, error >>

AvailableInKitchen ==
    /\ pc = "ready"
    /\ \E unit \in UnitRefs :
          call' = [NoCall EXCEPT !.op = "available_in_kitchen",
                                 !.unit = unit,
                                 !.value = available_in_kitchen(heap[unit])]
    /\ pc' = "called"
    /\ UNCHANGED << lines, i, heap, current_unit, units, graph,
                    unit_to_objects, kitchen, motion_data, error >>

UnitMatchesGoal ==
    /\ pc = "ready"
    /\ \E unit \in UnitRefs, goal_object \in GoalObjects,
          goal_state \in GoalStates :
          call' = [NoCall EXCEPT !.op = "unit_matches_goal",
                                 !.unit = unit,
                                 !.goal_object = goal_object,
                                 !.goal_state = goal_state,
                                 !.flag = unit_matches_goal(heap[unit],
                                              goal_object, goal_state)]
    /\ pc' = "called"
    /\ UNCHANGED << lines, i, heap, current_unit, units, graph,
                    unit_to_objects, kitchen, motion_data, error >>

\* The caller has taken the outcome; the object is ready for the next call.
Return ==
    /\ pc = "called"
    /\ pc' = "ready"
    /\ call' = NoCall
    /\ UNCHANGED << lines, i, heap, current_unit, units, graph,
                    unit_to_objects, kitchen, motion_data, error >>

Next ==
    \/ LoadFoonLine
    \/ LoadFoonReturn
    \/ LoadKitchen
    \/ LoadMotion
    \/ IterativeDeepeningSearch
    \/ AStarSearch
    \/ AvailableInKitchen
    \/ UnitMatchesGoal
    \/ Return

Spec == Init /\ [][Next]_vars

\* ============================================================ properties

\* The lines of unit that start with 'o', by position.
ObjectLines(unit) == {k \in 1..Len(unit) : StartsWith(unit[k], "o")}

\* The lines of unit that start with 's', by position.
StateLines(unit) == {k \in 1..Len(unit) : StartsWith(unit[k], "s")}

\* The second token of a line.
ObjectName(line) == Split(line)[2]

\* The text of a state line after its tag.
StateText(line) == Join(Tail(Split(line)))

\* The bucket of an object, empty when the object is no key.
Bucket(x) == IF x \in DOMAIN unit_to_objects THEN unit_to_objects[x] ELSE <<>>

\* The positions of a bucket whose unit matches the goal and is fully
\* available in the kitchen.
Qualifying(goal_object, goal_state) ==
    {k \in 1..Len(Bucket(goal_object)) :
        /\ unit_matches_goal(heap[Bucket(goal_object)[k]], goal_object,
                             goal_state)
        /\ available_in_kitchen(heap[Bucket(goal_object)[k]]) = PyTrue}

\* The first such unit in bucket order, None when there is none.
FirstQualifying(goal_object, goal_state) ==
    LET q == Qualifying(goal_object, goal_state)
    IN  IF q = {} THEN None
        ELSE Bucket(goal_object)[CHOOSE k \in q : \A j \in q : k <= j]

\* The lines of the file, normalised.
NormalisedLines == [k \in 1..Len(lines) |-> Normalise(lines[k])]

\* The maximal runs of consecutive non-delimiter lines of norm, in order;
\* current is the run being read.
RECURSIVE MaximalRuns(_, _)
MaximalRuns(norm, current) ==
    IF norm = <<>>
    THEN IF current # <<>> THEN <<current>> ELSE <<>>
    ELSE IF IsDelimiter(Head(norm))
         THEN (IF current # <<>> THEN <<current>> ELSE <<>>)
              \o MaximalRuns(Tail(norm), <<>>)
         ELSE MaximalRuns(Tail(norm), Append(current, Head(norm)))

\* The members of a list of references.
Members(refs) == {refs[k] : k \in 1..Len(refs)}

\* --------------------------------------------------------------------- C1

\* C1: for every goal, iterative_deepening_search with the default
\* max_depth or any max_depth >= 2 and a_star_search return the same
\* result: the same unit, or both None.
C1_IdsAndAStarAgree ==
    (call.op = "iterative_deepening_search" /\ call.max_depth >= 2)
        => a_star_search(call.goal_object, call.goal_state)
               = [ret |-> call.ret, err |-> "none"]

\* --------------------------------------------------------------------- C2

\* The names of the object lines of unit that are not in the kitchen, one
\* per offending line, in line order.
MissingNames(unit) ==
    LET offending == SelectSeq(unit,
                         LAMBDA l : StartsWith(l, "o")
                                    /\ ObjectName(l) \notin kitchen)
    IN  [k \in 1..Len(offending) |-> ObjectName(offending[k])]

C3_GoalMatchExact ==
    call.op = "unit_matches_goal"
        => LET unit == heap[call.unit]
           IN  /\ call.flag
                     <=> /\ \E k \in ObjectLines(unit) :
                                ObjectName(unit[k]) = call.goal_object
                         /\ \E k \in StateLines(unit) :
                                Contains(call.goal_state, StateText(unit[k]))
               /\ StateLines(unit) = {} => ~call.flag

\* A unit accepted although every state line follows an object line of
\* another object, on a goal state that is a proper part of the state text.
C3_Witness ==
    /\ call.op = "unit_matches_goal"
    /\ call.flag
    /\ LET unit == heap[call.unit]
       IN  \A k \in StateLines(unit) :
              /\ k > 1
              /\ StartsWith(unit[k - 1], "o")
              /\ ObjectName(unit[k - 1]) # call.goal_object
              /\ StateText(unit[k]) # call.goal_state

\* --------------------------------------------------------------------- C4

\* C4: load_foon returns, in file order, one unit for each maximal run of
\* consecutive non-delimiter lines, whether or not the file ends with a
\* delimiter line.
C4_UnitsAreMaximalRuns ==
    pc = "load_kitchen"
        => [k \in 1..Len(graph) |-> heap[graph[k]]]
               = MaximalRuns(NormalisedLines, <<>>)

\* --------------------------------------------------------------------- C5

\* C5: the unit a_star_search returns matches the goal, is fully available
\* in the kitchen and is the first such unit of the goal object's bucket;
\* a_star_search returns None when the bucket holds no such unit.
C5_AStarFirstAvailableMatch ==
    (call.op = "a_star_search" /\ call.err = "none")
        => call.ret = FirstQualifying(call.goal_object, call.goal_state)

\* --------------------------------------------------------------------- C6

\* C6: when the goal object is not a key of the unit index, both searches
\* return None and raise nothing, for every max_depth >= 0.
C6_UnknownGoalYieldsNone ==
    ( /\ call.op \in {"iterative_deepening_search", "a_star_search"}
      /\ call.goal_object \notin DOMAIN unit_to_objects )
        => call.ret = None /\ call.err = "none"

\* a_star_search on an object that is no key of a non-empty index.
C6_Witness ==
    /\ call.op = "a_star_search"
    /\ DOMAIN unit_to_objects # {}
    /\ call.goal_object \notin DOMAIN unit_to_objects
    /\ call.ret = None

\* --------------------------------------------------------------------- C7

\* C7: load_foon raises nothing, whatever the lines of the file are.
C7_LoadNeverRaises == pc # "raised" /\ error = "none"

\* --------------------------------------------------------------------- C8

\* depth_limited_search returns the same for every depth >= 1.
DepthIndependent(goal_object, goal_state) ==
    \A depth \in (1..(MaxDepth + 1)) \cup {DefaultMaxDepth} :
        depth_limited_search(goal_object, goal_state, depth)
            = FirstQualifying(goal_object, goal_state)

\* What C8 says of a finished iterative_deepening_search call.
IdsReturnsFirstQualifying ==
    /\ call.ret = FirstQualifying(call.goal_object, call.goal_state)
    /\ call.ret = None => call.calls = call.max_depth
    /\ DepthIndependent(call.goal_object, call.goal_state)

\* C8 as stated: for every max_depth >= 1, iterative_deepening_search
\* returns the first unit of the bucket that matches and is fully
\* available, and None only when there is none, after max_depth calls.
C8_AsStated ==
    (call.op = "iterative_deepening_search" /\ call.max_depth >= 1)
        => IdsReturnsFirstQualifying

\* C8 amended: the same for every max_depth >= 2 (with max_depth = 1 only
\* depth 0 is tried, where depth_limited_search returns None).
C8_Amended ==
    (call.op = "iterative_deepening_search" /\ call.max_depth >= 2)
        => IdsReturnsFirstQualifying

\* A unit returned that is not the first of its bucket.
C8_Witness ==
    /\ call.op = "iterative_deepening_search"
    /\ call.max_depth >= 2
    /\ call.ret # None
    /\ call.ret # Bucket(call.goal_object)[1]

\* --------------------------------------------------------------------- C9

\* C9: the outcome of a_star_search is the same on every motion table, and
\* no run ends in an error.
C9_AStarIgnoresMotion ==
    call.op = "a_star_search"
        => \A file \in MotionFiles :
              AStarWith(load_motion(file), call.goal_object, call.goal_state)
                  = [ret |-> call.ret, err |-> "none"]

\* -------------------------------------------------------------------- C10

\* C10: after load_foon, the bucket of x holds exactly the returned units
\* that have an object line named x, each once.
C10_BucketsExact ==
    pc = "load_kitchen"
        => /\ \A x \in DOMAIN unit_to_objects :
                 \A k \in 1..Len(unit_to_objects[x]) :
                    /\ unit_to_objects[x][k] \in Members(graph)
                    /\ \E n \in ObjectLines(heap[unit_to_objects[x][k]]) :
                          ObjectName(heap[unit_to_objects[x][k]][n]) = x
                    /\ \A j \in 1..Len(unit_to_objects[x]) :
                          j # k => unit_to_objects[x][j] # unit_to_objects[x][k]
           /\ \A u \in Members(graph) :
                 \A n \in ObjectLines(heap[u]) :
                    /\ ObjectName(heap[u][n]) \in DOMAIN unit_to_objects
                    /\ u \in Members(unit_to_objects[ObjectName(heap[u][n])])

====
